---- MODULE Spec2Model ----
(***************************************************************************)
(* Model of the CryptoCompare gateway (main.py): the FastAPI endpoints,    *)
(* the helper fetch_from_cryptocompare through which they all reach the    *)
(* upstream API, the mocked upstream (its recorded calls and its replies), *)
(* the process's standard output and the responses sent to the callers.    *)
(*                                                                         *)
(* Text that matters character by character (upstream bodies, error texts, *)
(* the API key, pipe-delimited news fields) is a sequence of one-character *)
(* strings.  Fixed literals of the code are TLA+ strings.  A formatted     *)
(* message f"<literal>{text}" is the record [prefix, text].                *)
(***************************************************************************)
EXTENDS Integers, Sequences, FiniteSets, TLC

VARIABLES pc, request, outbound, upstream, stdout, response

vars == <<pc, request, outbound, upstream, stdout, response>>

----------------------------------------------------------------------------
(* Bounds of the explored inputs *)

MaxReqs == 2
Slack == 1
MaxItems == 3
MaxStrLen == 2

(* Program constants *)

TruncLen == 200
HistoCeiling == 2000
PairsCeiling == 100
NewsCeiling == 20

----------------------------------------------------------------------------
(* Text helpers *)

Min(a, b) == IF a < b THEN a ELSE b
Max(a, b) == IF a > b THEN a ELSE b

Rep(c, n) == [i \in 1..n |-> c]

\* Python: sub in s
Contains(s, sub) ==
    \E i \in 1..(Len(s) - Len(sub) + 1) : SubSeq(s, i, i + Len(sub) - 1) = sub

\* Python: s[:k] for k >= 0 on a str
TakeChars(s, k) == SubSeq(s, 1, Min(k, Len(s)))

\* Python: seq[:k] for any integer k (a negative k counts from the end)
PySliceTo(seq, k) ==
    LET n == Len(seq)
        stop == IF k < 0 THEN Max(n + k, 0) ELSE Min(k, n)
    IN SubSeq(seq, 1, stop)

\* split("|", 1): only the first pipe splits
SplitFirstPipe(s) ==
    IF \A i \in 1..Len(s) : s[i] # "|"
    THEN <<s>>
    ELSE LET i == CHOOSE j \in 1..Len(s) :
                      s[j] = "|" /\ \A k \in 1..(j - 1) : s[k] # "|"
         IN <<SubSeq(s, 1, i - 1), SubSeq(s, i + 1, Len(s))>>

\* Python: s.split("|")
RECURSIVE SplitPipe(_)
SplitPipe(s) ==
    IF \A i \in 1..Len(s) : s[i] # "|"
    THEN <<s>>
    ELSE LET i == CHOOSE j \in 1..Len(s) :
                      s[j] = "|" /\ \A k \in 1..(j - 1) : s[k] # "|"
         IN <<SubSeq(s, 1, i - 1)>> \o SplitPipe(SubSeq(s, i + 1, Len(s)))

\* Python: str.upper() on the symbols the model sends
Upper(s) ==
    CASE s = "btc" -> "BTC"
      [] s = "usd" -> "USD"
      [] s = "eth" -> "ETH"
      [] s = "en" -> "EN"
      [] OTHER -> s

----------------------------------------------------------------------------
(* Configuration read at import time *)

CRYPTOCOMPARE_API_KEY == <<"k", "3", "y">>

BASE_URL == "https://min-api.cryptocompare.com/data"

HEADERS == [authorization |-> <<"A", "p", "i", "k", "e", "y", " ">> \o CRYPTOCOMPARE_API_KEY]

----------------------------------------------------------------------------
(* JSON values as response.json() returns them *)

JNull == [t |-> "null"]
JNum(n) == [t |-> "number", n |-> n]
JStr(s) == [t |-> "str", s |-> s]
JList(items) == [t |-> "list", items |-> items]
JObj(f) == [t |-> "object", f |-> f]

\* response.json() of a body that is not JSON raises instead of returning
NotJson == [t |-> "invalid"]

\* Python truthiness of a JSON value
Truthy(v) ==
    CASE v.t = "null" -> FALSE
      [] v.t = "number" -> v.n # 0
      [] v.t = "str" -> v.s # <<>>
      [] v.t = "list" -> v.items # <<>>
      [] OTHER -> DOMAIN v.f # {}

\* Python: dict.get(key, default)
DictGet(obj, key, default) == IF key \in DOMAIN obj.f THEN obj.f[key] ELSE default

----------------------------------------------------------------------------
(* Query parameters of an inbound request *)

Omitted == [given |-> FALSE]
Given(v) == [given |-> TRUE, v |-> v]
Opt(S) == {Omitted} \cup {Given(v) : v \in S}

\* Query(default): the value the handler sees
Arg(q, name, default) == IF q[name].given THEN q[name].v ELSE default

\* Query(...): the parameters FastAPI requires before it calls the handler
RequiredParams(endpoint) ==
    CASE endpoint = "/price" -> {"fsym", "tsyms"}
      [] endpoint = "/histoday" -> {"fsym", "tsym"}
      [] endpoint = "/histohour" -> {"fsym", "tsym"}
      [] endpoint = "/top-pairs" -> {"fsym"}
      [] endpoint = "/pricemulti" -> {"fsyms", "tsyms"}
      [] OTHER -> {}

MissingRequired(endpoint, q) == \E k \in RequiredParams(endpoint) : ~q[k].given

\* ClampLimit that replaces every limit by the ceiling
ClampAlways(limit, ceiling) == ceiling

\* min(limit, ceiling)
ClampLimit(limit, ceiling) == IF limit < ceiling THEN limit ELSE ceiling

----------------------------------------------------------------------------
(* fetch_from_cryptocompare *)

NoOutcome == [kind |-> "none"]
Raised(error) == [kind |-> "raised", error |-> error]
Replied(status_code, text, json) ==
    [kind |-> "response", status_code |-> status_code, text |-> text, json |-> json]

Returns(value) == [raised |-> FALSE, value |-> value]
Raises(exc, status_code, detail) ==
    [raised |-> TRUE, exc |-> exc, status_code |-> status_code, detail |-> detail]
HTTPException(status_code, prefix, text) ==
    Raises("HTTPException", status_code, [prefix |-> prefix, text |-> text])

\* str(e) of the decode error response.json() raises
DecodeErrorText == <<"E", "x", "p", "e", "c", "t", "i", "n", "g", " ", "v", "a", "l", "u", "e">>

\* The three lines printed before the call is made
FetchTrace(path, params) ==
    << [prefix |-> "Sending request to: ", arg |-> <<BASE_URL, path>>, text |-> <<>>],
       [prefix |-> "With headers: ", arg |-> "authorization", text |-> HEADERS.authorization],
       [prefix |-> "With params: ", arg |-> params, text |-> <<>>] >>

\* requests_get with one retry
requests_get_twice(calls, path, params) ==
    Append(Append(calls, [url |-> <<BASE_URL, path>>, headers |-> HEADERS, params |-> params]),
           [url |-> <<BASE_URL, path>>, headers |-> HEADERS, params |-> params])

\* requests.get(url, headers=HEADERS, params=params): one call recorded upstream
requests_get(calls, path, params) ==
    Append(calls, [url |-> <<BASE_URL, path>>, headers |-> HEADERS, params |-> params])

\* The lines printed once requests.get has returned or raised.
\* lib.jsonErrorIsRequestException: whether the installed requests raises a
\* RequestException subclass from response.json() (it does from 2.27 on).
FetchReplyTrace(o, lib) ==
    IF o.kind = "raised"
    THEN << [prefix |-> "Request error: ", arg |-> 0, text |-> o.error] >>
    ELSE << [prefix |-> "Response status: ", arg |-> o.status_code, text |-> <<>>] >> \o
         CASE o.status_code = 200 ->
                IF o.json.t = "invalid" /\ lib.jsonErrorIsRequestException
                THEN << [prefix |-> "Request error: ", arg |-> 0, text |-> DecodeErrorText] >>
                ELSE << >>
           [] o.status_code = 400 ->
                << [prefix |-> "Bad Request: ", arg |-> 0, text |-> o.text] >>
           [] o.status_code = 401 ->
                << [prefix |-> "Unauthorized: ", arg |-> 0, text |-> o.text] >>
           [] o.status_code = 429 ->
                << [prefix |-> "Too Many Requests: ", arg |-> 0, text |-> o.text] >>
           [] OTHER ->
                << [prefix |-> "Unexpected Error: ", arg |-> 0, text |-> o.text] >>

\* ErrorFor without its 429 branch: a rate limit falls through to the else
ErrorForNo429(o) ==
    CASE o.status_code = 400 ->
           HTTPException(400, "Bad Request: ", o.text)
      [] o.status_code = 401 ->
           HTTPException(401, "Invalid API Key", <<>>)
      [] OTHER ->
           HTTPException(o.status_code, "Unexpected Error: ", TakeChars(o.text, TruncLen))

\* The branches of fetch_from_cryptocompare for a status other than 200
ErrorFor(o) ==
    CASE o.status_code = 400 ->
           HTTPException(400, "Bad Request: ", o.text)
      [] o.status_code = 401 ->
           HTTPException(401, "Invalid API Key", <<>>)
      [] o.status_code = 429 ->
           HTTPException(429, "Rate limit exceeded. Please try again later.", <<>>)
      [] OTHER ->
           HTTPException(o.status_code, "Unexpected Error: ", TakeChars(o.text, TruncLen))

\* The try/except of fetch_from_cryptocompare applied to what requests.get did
fetch_from_cryptocompare(o, lib) ==
    IF o.kind = "raised"
    THEN HTTPException(500, "Connection Error: ", o.error)
    ELSE IF o.status_code # 200
    THEN ErrorFor(o)
    ELSE IF o.json.t # "invalid"
    THEN Returns(o.json)
    ELSE IF lib.jsonErrorIsRequestException
    THEN HTTPException(500, "Connection Error: ", DecodeErrorText)
    ELSE Raises("ValueError", 0, [prefix |-> "", text |-> DecodeErrorText])

\* What FastAPI sends for a handler's return value or exception: the returned
\* value as a 200 JSON body, an HTTPException as its status and {"detail": ...},
\* any other exception as a plain 500.
ToResponse(res) ==
    IF ~res.raised
    THEN [status |-> 200, body |-> res.value]
    ELSE IF res.exc = "HTTPException"
         THEN [status |-> res.status_code, detail |-> res.detail]
         ELSE [status |-> 500, detail |-> [prefix |-> "Internal Server Error", text |-> <<>>]]

\* The 422 FastAPI sends when a required query parameter is missing
ValidationError == [status |-> 422, detail |-> [prefix |-> "Field required", text |-> <<>>]]

----------------------------------------------------------------------------
(* get_news: the reshaping of the upstream payload *)

DataKey == <<"D", "a", "t", "a">>

\* Python: "Data" in full_response.  A dict is asked for the key, a list for the
\* element, a str for the substring; a number or null raises TypeError.
InRaises(full) == full.t \in {"number", "null"}
HasData(full) ==
    CASE full.t = "object" -> "Data" \in DOMAIN full.f
      [] full.t = "list" -> \E i \in 1..Len(full.items) : full.items[i] = JStr(DataKey)
      [] full.t = "str" -> Contains(full.s, DataKey)
      [] OTHER -> FALSE

\* One upstream item cannot be reshaped: item.get on a non-dict, or .split on a
\* categories or (truthy) tags value that is not a str, raises AttributeError.
ItemRaises(item) ==
    \/ item.t # "object"
    \/ DictGet(item, "categories", JStr(<<>>)).t # "str"
    \/ /\ Truthy(DictGet(item, "tags", JNull))
       /\ DictGet(item, "tags", JStr(<<>>)).t # "str"

\* The dict appended to simplified_news for one upstream item
SimplifyItem(item) ==
    [id |-> DictGet(item, "id", JNull),
     title |-> DictGet(item, "title", JNull),
     url |-> DictGet(item, "url", JNull),
     source |-> DictGet(item, "source", JNull),
     published_on |-> DictGet(item, "published_on", JNull),
     categories |-> SplitPipe(DictGet(item, "categories", JStr(<<>>)).s),
     tags |-> IF Truthy(DictGet(item, "tags", JNull))
              THEN SplitPipe(DictGet(item, "tags", JStr(<<>>)).s)
              ELSE <<>>]

\* KeptItems without the slice
KeptAll(full, limit) == full.f["Data"].items

\* full_response["Data"][:limit]
KeptItems(full, limit) == PySliceTo(full.f["Data"].items, limit)

\* len(simplified_news)
NewsCount(simplified_news) == Len(simplified_news)

\* The rest of get_news once fetch_from_cryptocompare has returned or raised
news_result(res, limit) ==
    IF res.raised THEN res
    ELSE LET full == res.value IN
         IF InRaises(full)
         THEN Raises("TypeError", 0, [prefix |-> "", text |-> <<>>])
         ELSE IF ~HasData(full)
         THEN Returns([status |-> "success", count |-> NewsCount(<<>>), news |-> <<>>])
         ELSE IF full.t # "object"
         THEN Raises("TypeError", 0, [prefix |-> "", text |-> <<>>])
         ELSE IF full.f["Data"].t # "list"
         THEN Returns([status |-> "success", count |-> NewsCount(<<>>), news |-> <<>>])
         ELSE LET kept == KeptItems(full, limit) IN
              IF \E i \in 1..Len(kept) : ItemRaises(kept[i])
              THEN Raises("AttributeError", 0, [prefix |-> "", text |-> <<>>])
              ELSE LET simplified_news == [i \in 1..Len(kept) |-> SimplifyItem(kept[i])]
                   IN Returns([status |-> "success",
                               count |-> NewsCount(simplified_news),
                               news |-> simplified_news])

----------------------------------------------------------------------------
(* test_api_key: the try/except around its fetch *)

\* str(e) of the exception caught.  lib.strShowsDetail: whether the installed
\* Starlette's HTTPException.__str__ shows the detail (older ones give "").
ExceptionText(res, lib) ==
    IF res.exc = "HTTPException"
    THEN IF lib.strShowsDetail
         THEN [said |-> res.detail.prefix, text |-> res.detail.text]
         ELSE [said |-> "", text |-> <<>>]
    ELSE [said |-> "", text |-> res.detail.text]

\* test_api_key without its try/except
test_api_key_uncaught(res, lib) ==
    IF ~res.raised
    THEN Returns([status |-> "success",
                  message |-> [prefix |-> "API key is valid and connection to CryptoCompare is established",
                               said |-> "", text |-> <<>>],
                  price |-> res.value])
    ELSE res

test_api_key_result(res, lib) ==
    IF ~res.raised
    THEN Returns([status |-> "success",
                  message |-> [prefix |-> "API key is valid and connection to CryptoCompare is established",
                               said |-> "", text |-> <<>>],
                  price |-> res.value])
    ELSE Returns([status |-> "error",
                  message |-> [prefix |-> "Connection Error: ",
                               said |-> ExceptionText(res, lib).said,
                               text |-> ExceptionText(res, lib).text]])

----------------------------------------------------------------------------
(* The endpoints.  A handler runs up to the blocking requests.get in one   *)
(* step; UpstreamResponds is the rest of it, from the upstream's reply to  *)
(* the response sent to the caller.                                        *)

NoRequest == [endpoint |-> "none"]
NoResponse == [status |-> 0]

\* The library versions the process may be running on
Libs == [jsonErrorIsRequestException : BOOLEAN, strShowsDetail : BOOLEAN]

\* Reject with the parameters checked only after the upstream was called
RejectAfterCall(r, endpoint, q) ==
    /\ pc' = [pc EXCEPT ![r] = "done"]
    /\ request' = [request EXCEPT ![r] = [endpoint |-> endpoint, query |-> q]]
    /\ response' = [response EXCEPT ![r] = ValidationError]
    /\ outbound' = [outbound EXCEPT ![r] = Append(@, [url |-> <<BASE_URL, endpoint>>,
                                                      headers |-> HEADERS, params |-> q])]
    /\ UNCHANGED <<upstream, stdout>>

\* FastAPI rejects the request: the handler is never entered
Reject(r, endpoint, q) ==
    /\ pc' = [pc EXCEPT ![r] = "done"]
    /\ request' = [request EXCEPT ![r] = [endpoint |-> endpoint, query |-> q]]
    /\ response' = [response EXCEPT ![r] = ValidationError]
    /\ UNCHANGED <<outbound, upstream, stdout>>

\* The handler calls fetch_from_cryptocompare(path, params), which prints its
\* trace and blocks in requests.get
CallFetch(r, endpoint, q, path, params) ==
    /\ pc' = [pc EXCEPT ![r] = "awaiting"]
    /\ request' = [request EXCEPT ![r] = [endpoint |-> endpoint, query |-> q]]
    /\ stdout' = [stdout EXCEPT ![r] = @ \o FetchTrace(path, params)]
    /\ outbound' = [outbound EXCEPT ![r] = requests_get(@, path, params)]
    /\ UNCHANGED <<upstream, response>>

\* if e: params["e"] = e
WithExchange(q) == q.e.given /\ q.e.v # ""

home(r) ==
    /\ pc[r] = "idle"
    /\ pc' = [pc EXCEPT ![r] = "done"]
    /\ request' = [request EXCEPT ![r] = [endpoint |-> "/", query |-> <<>>]]
    /\ response' = [response EXCEPT ![r] =
           [status |-> 200,
            body |-> [message |-> "CryptoCompare API is running!", version |-> "1.0.0"]]]
    /\ UNCHANGED <<outbound, upstream, stdout>>

get_price(r, Q) ==
    /\ pc[r] = "idle"
    /\ \E q \in Q :
         IF MissingRequired("/price", q)
         THEN Reject(r, "/price", q)
         ELSE CallFetch(r, "/price", q, "/price",
                  IF WithExchange(q)
                  THEN [fsym |-> Upper(q.fsym.v), tsyms |-> Upper(q.tsyms.v), e |-> q.e.v]
                  ELSE [fsym |-> Upper(q.fsym.v), tsyms |-> Upper(q.tsyms.v)])

HistoParams(q, limit) ==
    IF WithExchange(q)
    THEN [fsym |-> Upper(q.fsym.v), tsym |-> Upper(q.tsym.v),
          limit |-> ClampLimit(limit, HistoCeiling),
          aggregate |-> Arg(q, "aggregate", 1), e |-> q.e.v]
    ELSE [fsym |-> Upper(q.fsym.v), tsym |-> Upper(q.tsym.v),
          limit |-> ClampLimit(limit, HistoCeiling),
          aggregate |-> Arg(q, "aggregate", 1)]

get_histoday(r, Q) ==
    /\ pc[r] = "idle"
    /\ \E q \in Q :
         IF MissingRequired("/histoday", q)
         THEN Reject(r, "/histoday", q)
         ELSE CallFetch(r, "/histoday", q, "/v2/histoday",
                  HistoParams(q, Arg(q, "limit", 30)))

get_histohour(r, Q) ==
    /\ pc[r] = "idle"
    /\ \E q \in Q :
         IF MissingRequired("/histohour", q)
         THEN Reject(r, "/histohour", q)
         ELSE CallFetch(r, "/histohour", q, "/v2/histohour",
                  HistoParams(q, Arg(q, "limit", 24)))

get_top_pairs(r, Q) ==
    /\ pc[r] = "idle"
    /\ \E q \in Q :
         IF MissingRequired("/top-pairs", q)
         THEN Reject(r, "/top-pairs", q)
         ELSE CallFetch(r, "/top-pairs", q, "/top/pairs",
                  [fsym |-> Upper(q.fsym.v),
                   limit |-> ClampLimit(Arg(q, "limit", 10), PairsCeiling)])

\* limit as get_news sees it
NewsLimit(q) == Arg(q, "limit", 5)

get_news(r, Q) ==
    /\ pc[r] = "idle"
    /\ \E q \in Q :
         CallFetch(r, "/news", q, "/v2/news/",
             IF q.categories.given /\ q.categories.v # ""
             THEN [limit |-> ClampLimit(NewsLimit(q), NewsCeiling),
                   lang |-> Upper(Arg(q, "lang", "EN")),
                   categories |-> q.categories.v]
             ELSE [limit |-> ClampLimit(NewsLimit(q), NewsCeiling),
                   lang |-> Upper(Arg(q, "lang", "EN"))])

get_pricemulti(r, Q) ==
    /\ pc[r] = "idle"
    /\ \E q \in Q :
         IF MissingRequired("/pricemulti", q)
         THEN Reject(r, "/pricemulti", q)
         ELSE CallFetch(r, "/pricemulti", q, "/pricemulti",
                  IF WithExchange(q)
                  THEN [fsyms |-> Upper(q.fsyms.v), tsyms |-> Upper(q.tsyms.v), e |-> q.e.v]
                  ELSE [fsyms |-> Upper(q.fsyms.v), tsyms |-> Upper(q.tsyms.v)])

test_api_key(r) ==
    /\ pc[r] = "idle"
    /\ CallFetch(r, "/test-api-key", <<>>, "/price", [fsym |-> "BTC", tsyms |-> "USD"])

\* What the handler of `endpoint` does with the outcome of its fetch
HandlerResult(endpoint, q, res, lib) ==
    CASE endpoint = "/news" -> news_result(res, NewsLimit(q))
      [] endpoint = "/test-api-key" -> test_api_key_result(res, lib)
      [] OTHER -> res

\* requests.get returns or raises; fetch_from_cryptocompare classifies it, the
\* handler finishes and FastAPI sends the response.  O are the upstream's
\* possible outcomes, N those it has for the news endpoint only.
UpstreamResponds(r, O, N) ==
    /\ pc[r] = "awaiting"
    /\ \E o \in O \cup (IF request[r].endpoint = "/news" THEN N ELSE {}) :
       \E lib \in Libs :
         LET res == fetch_from_cryptocompare(o, lib)
             out == HandlerResult(request[r].endpoint, request[r].query, res, lib)
         IN /\ upstream' = [upstream EXCEPT ![r] = o]
            /\ stdout' = [stdout EXCEPT ![r] = @ \o FetchReplyTrace(o, lib)]
            /\ response' = [response EXCEPT ![r] = ToResponse(out)]
            /\ pc' = [pc EXCEPT ![r] = "done"]
            /\ UNCHANGED <<request, outbound>>

InitOn(R) ==
    /\ pc = [r \in R |-> "idle"]
    /\ request = [r \in R |-> NoRequest]
    /\ outbound = [r \in R |-> <<>>]
    /\ upstream = [r \in R |-> NoOutcome]
    /\ stdout = [r \in R |-> <<>>]
    /\ response = [r \in R |-> NoResponse]

----------------------------------------------------------------------------
(* Inputs: the callers' queries and the upstream's outcomes *)

\* Limits around zero and around a ceiling
Limits(ceiling) == ((0 - Slack)..Slack) \cup ((ceiling - Slack)..(ceiling + Slack))

PriceQueries == [fsym : Opt({"btc"}), tsyms : Opt({"usd"}), e : Opt({"Coinbase"})]
MultiQueries == [fsyms : Opt({"btc"}), tsyms : Opt({"usd"}), e : Opt({"Coinbase"})]
HistoQueries ==
    [fsym : Opt({"btc"}), tsym : Opt({"usd"}), limit : Opt(Limits(HistoCeiling)),
     aggregate : {Omitted}, e : {Omitted}]
    \cup [fsym : {Given("eth")}, tsym : {Given("USD")}, limit : {Omitted},
          aggregate : Opt({7}), e : Opt({"", "Coinbase"})]
PairsQueries == [fsym : Opt({"btc"}), limit : Opt(Limits(PairsCeiling))]
NewsQueries ==
    [categories : {Omitted}, lang : {Omitted},
     limit : Opt(Limits(NewsCeiling) \cup ((0 - MaxItems)..MaxItems))]
    \cup [categories : Opt({"", "BTC"}), lang : Opt({"en"}), limit : {Omitted}]

\* Upstream bodies: filler up to around the truncation length, then possibly
\* the API key (an upstream that echoes the credential it was sent)
Filler == {0} \cup ((TruncLen - Len(CRYPTOCOMPARE_API_KEY) - Slack)..(TruncLen + Slack))
Bodies ==
    {Rep("x", n) \o k : n \in Filler, k \in {<<>>, CRYPTOCOMPARE_API_KEY}}

ErrorStatuses == {400, 401, 429, 403, 500}

TimedOut == <<"t", "i", "m", "e", "d", " ", "o", "u", "t">>

\* Non-200 replies, transport failures and 200 replies with a body that is
\* not JSON, a number, or an object without "Data"
Outcomes ==
    {Replied(s, b, NotJson) : s \in ErrorStatuses, b \in Bodies}
    \cup {Raised(TimedOut), Raised(TimedOut \o CRYPTOCOMPARE_API_KEY)}
    \cup {Replied(200, <<>>, j) :
            j \in {NotJson, JNum(5), JNull,
                   JObj([Message |-> JStr(CRYPTOCOMPARE_API_KEY)])}}

\* Pipe-delimited field values: every string over {a, |} up to MaxStrLen
FieldStrings == UNION {[1..n -> {"a", "|"}] : n \in 0..MaxStrLen}
FieldValues == Opt({JNull} \cup {JStr(s) : s \in FieldStrings})

\* The upstream item with id i and the given (or absent) categories and tags
NewsItem(i, c, t) ==
    JObj([k \in {"id"} \cup (IF c.given THEN {"categories"} ELSE {})
                       \cup (IF t.given THEN {"tags"} ELSE {}) |->
            CASE k = "id" -> JNum(i)
              [] k = "categories" -> c.v
              [] OTHER -> t.v])

\* Items after the first come in a few kinds
ItemKinds == {"cats", "tags", "number"}
Item(kind, i) ==
    CASE kind = "cats" -> NewsItem(i, Given(JStr(<<"a", "|", "b">>)), Omitted)
      [] kind = "tags" -> NewsItem(i, Given(JStr(<<"a">>)), Given(JStr(<<"a", "|", "b">>)))
      [] OTHER -> JNum(i)

FirstItems == {JNum(1)} \cup {NewsItem(1, c, t) : c \in FieldValues, t \in FieldValues}

\* Item lists of up to MaxItems items; the i-th carries id i
ItemLists ==
    {<<>>} \cup
    UNION {{<<first>> \o [i \in 1..n |-> Item(ks[i], i + 1)] :
               first \in FirstItems, ks \in [1..n -> ItemKinds]} : n \in 0..(MaxItems - 1)}

NewsOutcomes ==
    {Replied(200, <<>>, JObj([Data |-> JList(items)])) : items \in ItemLists}
    \cup {Replied(200, <<>>, JObj([Data |-> JStr(<<"a">>)])),
          Replied(200, <<>>, JStr(DataKey))}

Init == InitOn({1})

Next ==
    \/ home(1)
    \/ get_price(1, PriceQueries)
    \/ get_histoday(1, HistoQueries)
    \/ get_histohour(1, HistoQueries)
    \/ get_top_pairs(1, PairsQueries)
    \/ get_news(1, NewsQueries)
    \/ get_pricemulti(1, MultiQueries)
    \/ test_api_key(1)
    \/ UpstreamResponds(1, Outcomes, NewsOutcomes)

Spec == Init /\ [][Next]_vars

----------------------------------------------------------------------------
(* Concurrent requests: MaxReqs callers, the handlers interleaved at their *)
(* upstream calls, over fewer inputs.                                      *)

Reqs == 1..MaxReqs

AllGiven(Q) == {q \in Q : \A k \in DOMAIN q : q[k].given}
NoneGiven(Q) == {q \in Q : \A k \in DOMAIN q : ~q[k].given}

ConcPrice == AllGiven(PriceQueries) \cup NoneGiven(PriceQueries)
ConcMulti == AllGiven(MultiQueries) \cup NoneGiven(MultiQueries)
ConcHisto ==
    {q \in HistoQueries : q.fsym.given /\ q.tsym.given /\ ~q.limit.given /\ ~q.aggregate.given /\ ~q.e.given}
    \cup NoneGiven(HistoQueries)
ConcPairs == {q \in PairsQueries : ~q.limit.given}
ConcNews == NoneGiven(NewsQueries)

ConcOutcomes ==
    {Replied(200, <<>>, JNum(5)), Raised(TimedOut)}
    \cup {Replied(s, <<"x">>, NotJson) : s \in {400, 401, 429, 503}}

InitConc == InitOn(Reqs)

NextConc ==
    \E r \in Reqs :
        \/ home(r)
        \/ get_price(r, ConcPrice)
        \/ get_histoday(r, ConcHisto)
        \/ get_histohour(r, ConcHisto)
        \/ get_top_pairs(r, ConcPairs)
        \/ get_news(r, ConcNews)
        \/ get_pricemulti(r, ConcMulti)
        \/ test_api_key(r)
        \/ UpstreamResponds(r, ConcOutcomes, {})

SpecConc == InitConc /\ [][NextConc]_vars

----------------------------------------------------------------------------
(* Vocabulary of the properties *)

\* The failure kind a response shows its caller
KindOf(resp) ==
    IF "detail" \notin DOMAIN resp THEN "Success"
    ELSE CASE resp.detail.prefix = "Bad Request: " -> "InvalidRequest"
           [] resp.detail.prefix = "Invalid API Key" -> "Unauthorized"
           [] resp.detail.prefix = "Rate limit exceeded. Please try again later." -> "RateLimited"
           [] resp.detail.prefix = "Unexpected Error: " -> "UpstreamError"
           [] resp.detail.prefix = "Connection Error: " -> "ConnectionError"
           [] resp.detail.prefix = "Field required" -> "ValidationError"
           [] OTHER -> "Unhandled"

Passthrough == {"/price", "/pricemulti", "/histoday", "/histohour", "/top-pairs"}

\* The requests whose response is what fetch_from_cryptocompare gave
Fetched == {r \in DOMAIN pc : pc[r] = "done" /\ request[r].endpoint \in Passthrough
                               /\ upstream[r].kind # "none"}

\* The required parameters as the specification lists them
SpecRequired(endpoint) ==
    CASE endpoint = "/price" -> {"fsym", "tsyms"}
      [] endpoint = "/pricemulti" -> {"fsyms", "tsyms"}
      [] endpoint \in {"/histoday", "/histohour"} -> {"fsym", "tsym"}
      [] endpoint = "/top-pairs" -> {"fsym"}
      [] OTHER -> {}

OmitsRequired(r) ==
    \E k \in SpecRequired(request[r].endpoint) : ~request[r].query[k].given

\* The proxied requests that passed validation
Proxied == {r \in DOMAIN pc : request[r].endpoint \notin {"none", "/"} /\ ~OmitsRequired(r)}

IsFailure(o) == o.kind = "raised" \/ (o.kind = "response" /\ o.status_code # 200)

\* The failure kind the specification gives an upstream failure
SpecKind(o) ==
    IF o.kind = "raised" THEN "ConnectionError"
    ELSE CASE o.status_code = 400 -> "InvalidRequest"
           [] o.status_code = 401 -> "Unauthorized"
           [] o.status_code = 429 -> "RateLimited"
           [] OTHER -> "UpstreamError"

\* The classification the specification states for the non-200 outcomes
ClassifiedAsStated(o, resp) ==
    /\ KindOf(resp) = SpecKind(o)
    /\ o.kind = "raised" =>
         /\ resp.detail.prefix # ""
         /\ \E n \in 0..Len(resp.detail.text) : SubSeq(resp.detail.text, 1, n) = o.error
    /\ o.kind = "response" =>
         /\ resp.status = o.status_code
         /\ o.status_code \in {401, 429} => resp.detail.text = <<>>

HasKey(text) == Contains(text, CRYPTOCOMPARE_API_KEY)

\* Some string of a JSON value contains the API key
RECURSIVE JsonHasKey(_)
JsonHasKey(v) ==
    CASE v.t = "str" -> HasKey(v.s)
      [] v.t = "list" -> \E i \in 1..Len(v.items) : JsonHasKey(v.items[i])
      [] v.t = "object" -> \E k \in DOMAIN v.f : JsonHasKey(v.f[k])
      [] OTHER -> FALSE

\* The body or detail of a response contains the API key
ResponseHasKey(resp) ==
    IF "detail" \in DOMAIN resp THEN HasKey(resp.detail.text)
    ELSE IF "body" \notin DOMAIN resp THEN FALSE
    ELSE IF "t" \in DOMAIN resp.body THEN JsonHasKey(resp.body)
    ELSE IF "news" \in DOMAIN resp.body
    THEN \E i \in 1..Len(resp.body.news) :
           \/ \E j \in 1..Len(resp.body.news[i].categories) : HasKey(resp.body.news[i].categories[j])
           \/ \E j \in 1..Len(resp.body.news[i].tags) : HasKey(resp.body.news[i].tags[j])
    ELSE IF "price" \in DOMAIN resp.body
    THEN HasKey(resp.body.message.text) \/ JsonHasKey(resp.body.price)
    ELSE IF "status" \in DOMAIN resp.body THEN HasKey(resp.body.message.text)
    ELSE FALSE

\* Pieces joined by "|"
RECURSIVE JoinPipe(_)
JoinPipe(pieces) ==
    IF Len(pieces) = 0 THEN <<>>
    ELSE IF Len(pieces) = 1 THEN pieces[1]
    ELSE pieces[1] \o <<"|">> \o JoinPipe(Tail(pieces))

\* pieces are the pipe-delimited pieces of s, in order
PiecesOf(pieces, s) ==
    /\ Len(pieces) >= 1
    /\ JoinPipe(pieces) = s
    /\ \A j \in 1..Len(pieces) : \A k \in 1..Len(pieces[j]) : pieces[j][k] # "|"

\* The successful news responses to a payload whose "Data" is a list
NewsDone == {r \in DOMAIN pc : pc[r] = "done" /\ request[r].endpoint = "/news"
                                /\ response[r].status = 200}
DataList(r) ==
    IF upstream[r].json.t = "object" /\ "Data" \in DOMAIN upstream[r].json.f
       /\ upstream[r].json.f["Data"].t = "list"
    THEN upstream[r].json.f["Data"].items
    ELSE <<>>
RequestedLimit(r) == IF request[r].query.limit.given THEN request[r].query.limit.v ELSE 5

----------------------------------------------------------------------------
(* Properties *)

\* C1 as stated: the response to a fetched request is determined by the
\* upstream status alone: 200 gives the parsed body as a success, 400
\* InvalidRequest, 401 Unauthorized and 429 RateLimited with fixed messages,
\* any other status UpstreamError with that status, a transport failure
\* ConnectionError with a non-empty message.
C1_StatusAloneDecides ==
    \A r \in Fetched :
        IF IsFailure(upstream[r])
        THEN ClassifiedAsStated(upstream[r], response[r])
        ELSE /\ KindOf(response[r]) = "Success"
             /\ response[r].status = 200
             /\ response[r].body = upstream[r].json

\* C1 amended: the classification holds as stated for every failure status and
\* for a transport failure; a 200 gives the parsed body as a success when its
\* body parses as JSON, and a local 500 failure (never a success) when not.
C1_Classification ==
    \A r \in Fetched :
        IF IsFailure(upstream[r])
        THEN ClassifiedAsStated(upstream[r], response[r])
        ELSE IF upstream[r].json.t # "invalid"
        THEN /\ KindOf(response[r]) = "Success"
             /\ response[r].status = 200
             /\ response[r].body = upstream[r].json
        ELSE /\ KindOf(response[r]) \in {"ConnectionError", "Unhandled"}
             /\ response[r].status = 500

C1_Witness ==
    \E r \in Fetched :
        /\ upstream[r].kind = "response" /\ upstream[r].status_code = 200
        /\ upstream[r].json.t = "invalid"
        /\ response[r].status = 500
        /\ KindOf(response[r]) = "ConnectionError"

\* C2: no response sent to a caller contains the API key, whatever the
\* endpoint and whatever the upstream replied.
C2_KeyNeverReturned ==
    \A r \in DOMAIN pc : pc[r] = "done" => ~ResponseHasKey(response[r])

\* C3: a failure message that echoes the upstream body (InvalidRequest,
\* UpstreamError) carries at most 200 characters of it.
C3_EchoTruncated ==
    \A r \in DOMAIN pc :
        (pc[r] = "done" /\ KindOf(response[r]) \in {"InvalidRequest", "UpstreamError"})
            => Len(response[r].detail.text) <= 200

\* C4: a request that omits a required parameter is rejected with a
\* validation failure and no outbound call is ever made for it.
C4_RejectedBeforeCall ==
    \A r \in DOMAIN pc :
        (request[r].endpoint # "none" /\ OmitsRequired(r))
            => /\ pc[r] = "done"
               /\ KindOf(response[r]) = "ValidationError"
               /\ response[r].status = 422
               /\ Len(outbound[r]) = 0
               /\ upstream[r] = NoOutcome

C4_Witness ==
    \E r \in DOMAIN pc :
        /\ request[r].endpoint = "/price"
        /\ request[r].query.fsym.given /\ ~request[r].query.tsyms.given
        /\ pc[r] = "done" /\ response[r].status = 422
        /\ Len(outbound[r]) = 0

\* C5: every proxied request that passed validation has exactly one outbound
\* call, while it waits and when its response is sent, whatever the upstream
\* did and however the requests interleave; an upstream failure is surfaced as
\* its failure kind (in-band by test-api-key) and never retried.
C5_ExactlyOneCall ==
    \A r \in Proxied :
        /\ Len(outbound[r]) = 1
        /\ pc[r] \in {"awaiting", "done"}
        /\ pc[r] = "awaiting" => response[r] = NoResponse
        /\ (pc[r] = "done" /\ IsFailure(upstream[r])) =>
              IF request[r].endpoint = "/test-api-key"
              THEN response[r].status = 200 /\ response[r].body.status = "error"
              ELSE KindOf(response[r]) = SpecKind(upstream[r])

C5_Witness ==
    \E r1 \in Proxied : \E r2 \in Proxied :
        /\ r1 # r2
        /\ pc[r1] = "awaiting" /\ Len(outbound[r1]) = 1
        /\ pc[r2] = "done" /\ Len(outbound[r2]) = 1
        /\ upstream[r2].kind = "raised"
        /\ KindOf(response[r2]) = "ConnectionError"

\* C6: test-api-key always answers with a 200 body: status "success" with the
\* price payload exactly when the upstream gave a 200 that parsed, status
\* "error" with a message for every failure status, transport failure or
\* other exception.
C6_KeyCheckInBand ==
    \A r \in DOMAIN pc :
        (pc[r] = "done" /\ request[r].endpoint = "/test-api-key") =>
            /\ response[r].status = 200
            /\ KindOf(response[r]) = "Success"
            /\ IF ~IsFailure(upstream[r]) /\ upstream[r].json.t # "invalid"
               THEN /\ response[r].body.status = "success"
                    /\ response[r].body.price = upstream[r].json
               ELSE /\ response[r].body.status = "error"
                    /\ response[r].body.message.prefix # ""
                    /\ "price" \notin DOMAIN response[r].body

C6_Witness ==
    \E r \in DOMAIN pc :
        /\ pc[r] = "done" /\ request[r].endpoint = "/test-api-key"
        /\ upstream[r].kind = "response" /\ upstream[r].status_code = 200
        /\ upstream[r].json.t = "invalid"
        /\ response[r].status = 200 /\ response[r].body.status = "error"

\* The ceilings the specification gives the endpoints
C7_Ceiling(endpoint) ==
    CASE endpoint \in {"/histoday", "/histohour"} -> 2000
      [] endpoint = "/top-pairs" -> 100
      [] OTHER -> 20

\* C7: the limit sent upstream is min(limit, ceiling): the ceiling for every
\* limit above it, the limit itself otherwise (zero and negatives included),
\* and the request is not rejected.
C7_LimitClamped ==
    \A r \in Proxied :
        (request[r].endpoint \in {"/histoday", "/histohour", "/top-pairs", "/news"}
         /\ request[r].query.limit.given) =>
            LET limit == request[r].query.limit.v
                ceiling == C7_Ceiling(request[r].endpoint)
            IN /\ Len(outbound[r]) = 1
               /\ outbound[r][1].params.limit = IF limit > ceiling THEN ceiling ELSE limit
               /\ response[r] # ValidationError

C7_Witness ==
    \E r \in Proxied :
        /\ request[r].endpoint = "/histoday"
        /\ request[r].query.limit = Given(2001)
        /\ outbound[r][1].params.limit = 2000

\* C8 as stated: in every successful news response count is the length of
\* news, and that length is at most the requested limit, for every integer
\* limit.
C8_CountAtMostLimit ==
    \A r \in NewsDone :
        /\ response[r].body.count = Len(response[r].body.news)
        /\ Len(response[r].body.news) <= RequestedLimit(r)

\* C8 amended: count is the length of news for every limit; for a limit >= 0
\* that length is min(limit, number of upstream items), so at most the limit;
\* for a limit < 0 the last -limit upstream items are dropped.
C8_CountIsLength ==
    \A r \in NewsDone :
        LET n == Len(DataList(r))
            limit == RequestedLimit(r)
        IN /\ response[r].body.count = Len(response[r].body.news)
           /\ limit >= 0 =>
                /\ Len(response[r].body.news) <= limit
                /\ Len(response[r].body.news) = IF limit < n THEN limit ELSE n
           /\ limit < 0 =>
                Len(response[r].body.news) = IF n + limit > 0 THEN n + limit ELSE 0

C8_Witness ==
    \E r \in NewsDone :
        /\ RequestedLimit(r) = 0 - 1
        /\ Len(DataList(r)) = 3
        /\ response[r].body.count = 2

\* C9: each reshaped item derives from the upstream item at the same position;
\* its categories are the pipe-delimited pieces of the upstream categories
\* string in order, its tags those of the upstream tags string, and an empty
\* or absent tags field gives no tags.
C9_Reshaped ==
    \A r \in NewsDone :
        LET news == response[r].body.news
            data == DataList(r)
        IN /\ Len(news) <= Len(data)
           /\ \A i \in 1..Len(news) :
                /\ news[i].id = data[i].f["id"]
                /\ "categories" \in DOMAIN data[i].f =>
                      PiecesOf(news[i].categories, data[i].f["categories"].s)
                /\ IF "tags" \in DOMAIN data[i].f /\ data[i].f["tags"].t = "str"
                      /\ data[i].f["tags"].s # <<>>
                   THEN PiecesOf(news[i].tags, data[i].f["tags"].s)
                   ELSE news[i].tags = <<>>

C9_Witness ==
    \E r \in NewsDone :
        /\ Len(response[r].body.news) >= 2
        /\ "categories" \in DOMAIN DataList(r)[1].f
        /\ DataList(r)[1].f["categories"] = JStr(<<"|", "|">>)
        /\ response[r].body.news[1].categories = << <<>>, <<>>, <<>> >>
        /\ "tags" \notin DOMAIN DataList(r)[2].f
        /\ response[r].body.news[2].categories = << <<"a">>, <<"b">> >>
        /\ response[r].body.news[2].tags = <<>>

\* C10: no line the gateway prints contains the API key unredacted.
C10_KeyNeverLogged ==
    \A r \in DOMAIN pc : \A i \in 1..Len(stdout[r]) : ~HasKey(stdout[r][i].text)

====
